---- MODULE Spec2Model ----
(***************************************************************************)
(* Collage Creator: the row-packing layout engine (recalc_layout), the     *)
(* effective-position rule (get_display_pos / build_collage) and the       *)
(* editing handlers that drive them, for the two variants of the program   *)
(* kept in the repository:                                                 *)
(*   "Collage" = Collage.py (same layout code as Older Scripts/Collage-V2) *)
(*   "V5"      = Older Scripts/Collage-V5.py (locks, per-tile radius,      *)
(*               preview cache, project import).                           *)
(***************************************************************************)
EXTENDS Integers, Sequences, FiniteSets, TLC

VARIABLES variant, collage_width_var, collage_height_var, border_var,
          corner_radius_var, bg_color_var, scale_var, images, templates,
          preview_open,
          cached_collage, cached_collage_settings, returned, lastOp, diag

vars == <<variant, collage_width_var, collage_height_var, border_var,
          corner_radius_var, bg_color_var, scale_var, images, templates,
          preview_open,
          cached_collage, cached_collage_settings, returned, lastOp, diag>>

(***************************************************************************)
(* Bounds of the model.                                                    *)
(***************************************************************************)
\* longest tile sequence handed to the layout engine in SpecLayout
MaxLen == 3
\* longest tile sequence the editing session of Spec builds
MaxImages == 2
\* longest tile sequence built in the preview session of SpecPreview
MaxPreviewImages == 1
\* longest tile sequence handed to the compositor in SpecCompose
MaxTiles == 2
\* longest tile sequence built in the template session of SpecTemplates
MaxTemplateImages == 2
MaxProjectTiles == 2
MaxRowLen == 4

(***************************************************************************)
(* Values.                                                                 *)
(***************************************************************************)
\* Python's None in the integer-valued fields x, y, manual_x, manual_y
None == -9999

Variants == {"Collage", "V5"}

\* the texts the StringVars hold in the model, and the integer int() parses
\* from each; any other text makes int() raise ValueError
IntText == ("0" :> 0) @@ ("10" :> 10) @@ ("20" :> 20) @@ ("100" :> 100) @@ ("160" :> 160)
              @@ ("1080" :> 1080) @@ ("1920" :> 1920)
              @@ ("4" :> 4) @@ ("5" :> 5) @@ ("40" :> 40) @@ ("200" :> 200)
              @@ ("75" :> 75)

IsInt(s) == s \in DOMAIN IntText

int(s) == IntText[s]

\* texts typed into the canvas entries: in the editing session of Spec, and in
\* the preview session of SpecPreview
WidthTexts == {"100", "1920"}
PreviewWidthTexts == {"100", "abc"}
PreviewBorderTexts == {"10", "0"}

\* target sizes (width, height) typed into the image dialog
Sizes == {<<50, 20>>, <<30, 40>>}
ManualXs == {None, 15}
ManualYs == {None, 25}
Radii == {0, 8}

OVERFLOW_THRESHOLD_NUM == 1
OVERFLOW_THRESHOLD_DEN == 2

(***************************************************************************)
(* ImageEntry                                                              *)
(***************************************************************************)
\* the file behind entry.path: whether Image.open succeeds on it, the size of
\* the bitmap and its (solid) colour
Bitmap(readable, w, h, color) ==
    [readable |-> readable, opens |-> readable, size |-> <<w, h>>, color |-> color]

\* a file whose header Image.open accepts and whose pixel data does not
\* decode: the load inside crop or resize raises
TruncatedBitmap(w, h, color) == [Bitmap(FALSE, w, h, color) EXCEPT !.opens = TRUE]

DefaultBitmap == Bitmap(TRUE, 400, 400, "#FF0000")

NoTag == "None"

ImageEntry(target_w, target_h) ==
    [target_w |-> target_w, target_h |-> target_h,
     x |-> None, y |-> None, manual_x |-> None, manual_y |-> None,
     locked |-> FALSE, corner_radius |-> 0,
     template_tag |-> NoTag, bitmap |-> DefaultBitmap,
     orig_w |-> DefaultBitmap.size[1], orig_h |-> DefaultBitmap.size[2]]

get_display_pos_pairwise(entry) ==
    IF entry.manual_x # None /\ entry.manual_y # None
    THEN <<entry.manual_x, entry.manual_y>>
    ELSE <<entry.x, entry.y>>

get_display_pos(entry) ==
    <<IF entry.manual_x # None THEN entry.manual_x ELSE entry.x,
      IF entry.manual_y # None THEN entry.manual_y ELSE entry.y>>

(***************************************************************************)
(* recalc_layout                                                           *)
(***************************************************************************)
\* the tiles the loop passes over with `continue'
skip_entry_manual_or_locked(entry, v) ==
    entry.locked \/ (entry.manual_x # None /\ entry.manual_y # None)

skip_entry_never(entry, v) == FALSE

skip_entry_any_manual(entry, v) ==
    (v = "V5" /\ entry.locked) \/ entry.manual_x # None \/ entry.manual_y # None

skip_entry_manual_only(entry, v) ==
    entry.manual_x # None /\ entry.manual_y # None

skip_entry(entry, v) ==
    IF v = "V5"
    THEN entry.locked
    ELSE entry.manual_x # None /\ entry.manual_y # None

\* ratio = overflow / target_w ; ratio > OVERFLOW_THRESHOLD
\* wrapping already when exactly half of the tile overflows
overflow_wraps_from_half(target_w, free_space) ==
    (target_w - free_space) * OVERFLOW_THRESHOLD_DEN
        >= target_w * OVERFLOW_THRESHOLD_NUM

\* no wrap by the overflow ratio at all
overflow_wraps_never(target_w, free_space) == FALSE

overflow_wraps(target_w, free_space) ==
    (target_w - free_space) * OVERFLOW_THRESHOLD_DEN
        > target_w * OVERFLOW_THRESHOLD_NUM

Max(a, b) == IF a >= b THEN a ELSE b
Min(a, b) == IF a <= b THEN a ELSE b

start_cursor_off_by_one(border) == [x |-> border + 1, y |-> border, row_height |-> 0]

\* the cursor at the start of the loop
start_cursor(border) == [x |-> border, y |-> border, row_height |-> 0]

new_row_at_zero(c, border) ==
    [x |-> 0, y |-> c.y + c.row_height + border, row_height |-> 0]

new_row(c, border) ==
    [x |-> border, y |-> c.y + c.row_height + border, row_height |-> 0]

\* a tile that already has an auto position stays where it is
wrap_cursor_sticky(c, entry, collage_width, border) ==
    LET c1 == IF collage_width - c.x - border <= 0 THEN new_row(c, border) ELSE c
        free_space == collage_width - c1.x - border
    IN  IF entry.x # None /\ entry.y # None
        THEN [c EXCEPT !.x = entry.x, !.y = entry.y]
        ELSE IF entry.target_w > free_space /\ overflow_wraps(entry.target_w, free_space)
        THEN new_row(c1, border)
        ELSE c1

\* at most one wrap for a tile: the overflow test only in a row not just begun
wrap_cursor_once(c, entry, collage_width, border) ==
    LET free_space == collage_width - c.x - border
    IN  IF free_space <= 0 THEN new_row(c, border)
        ELSE IF entry.target_w > free_space /\ overflow_wraps(entry.target_w, free_space)
        THEN new_row(c, border)
        ELSE c

\* the cursor after the two wrap tests, where the entry is placed
wrap_cursor(c, entry, collage_width, border) ==
    LET c1 == IF collage_width - c.x - border <= 0 THEN new_row(c, border) ELSE c
        free_space == collage_width - c1.x - border
    IN  IF entry.target_w > free_space /\ overflow_wraps(entry.target_w, free_space)
        THEN new_row(c1, border)
        ELSE c1

advance_no_border(c, entry, border) ==
    [x |-> c.x + entry.target_w, y |-> c.y,
     row_height |-> Max(c.row_height, entry.target_h)]

advance(c, entry, border) ==
    [x |-> c.x + entry.target_w + border, y |-> c.y,
     row_height |-> Max(c.row_height, entry.target_h)]

RECURSIVE layout_loop(_, _, _, _, _, _)
layout_loop(imgs, i, c, v, collage_width, border) ==
    IF i > Len(imgs) THEN imgs
    ELSE IF skip_entry(imgs[i], v)
    THEN layout_loop(imgs, i + 1, c, v, collage_width, border)
    ELSE LET p == wrap_cursor(c, imgs[i], collage_width, border)
             placed == [imgs EXCEPT ![i].x = p.x, ![i].y = p.y]
         IN  layout_loop(placed, i + 1, advance(p, imgs[i], border),
                         v, collage_width, border)

settings_valid(width_text, border_text) == IsInt(width_text) /\ IsInt(border_text)

recalc_layout_lazy_parse(imgs, v, width_text, border_text) ==
    IF IsInt(width_text) /\ IsInt(border_text)
    THEN layout_loop(imgs, 1, start_cursor(int(border_text)), v,
                     int(width_text), int(border_text))
    ELSE IF IsInt(border_text) /\ Len(imgs) > 0 /\ ~skip_entry(imgs[1], v)
    THEN [imgs EXCEPT ![1].x = int(border_text), ![1].y = int(border_text)]
    ELSE imgs

recalc_layout(imgs, v, width_text, border_text) ==
    IF settings_valid(width_text, border_text)
    THEN layout_loop(imgs, 1, start_cursor(int(border_text)), v,
                     int(width_text), int(border_text))
    ELSE imgs

\* whether the loop body ran for some tile (V5 calls invalidate_cache there)
layout_touches(imgs, v, width_text, border_text) ==
    /\ settings_valid(width_text, border_text)
    /\ \E i \in 1..Len(imgs) : ~skip_entry(imgs[i], v)

(***************************************************************************)
(* build_collage: where a tile is painted                                  *)
(***************************************************************************)
paint_pos(entry) ==
    <<IF entry.manual_x # None THEN entry.manual_x ELSE entry.x,
      IF entry.manual_y # None THEN entry.manual_y ELSE entry.y>>

(***************************************************************************)
(* Python floats.  `/' on two ints and `*' of an int and a float work on   *)
(* IEEE-754 doubles: each operation returns the exact result rounded to 53 *)
(* significant bits, ties to even.  A float is [m, e] with value m * 2^e,  *)
(* 2^52 <= m < 2^53, and m is kept as four limbs of 20 bits, least         *)
(* significant first.  The ints of the model are below 2^10.               *)
(***************************************************************************)
LimbBase == 2^20

BigOfNat(n) == <<n % LimbBase, n \div LimbBase, 0, 0>>

NatOfBig(a) == a[1] + LimbBase * a[2]

TwoTo53 == <<0, 0, 2^13, 0>>

BigGe(a, b) ==
    IF a[4] # b[4] THEN a[4] > b[4]
    ELSE IF a[3] # b[3] THEN a[3] > b[3]
    ELSE IF a[2] # b[2] THEN a[2] > b[2]
    ELSE a[1] >= b[1]

\* a - b for a >= b
BigSub(a, b) ==
    LET d1 == a[1] - b[1]
        w1 == IF d1 < 0 THEN 1 ELSE 0
        d2 == a[2] - b[2] - w1
        w2 == IF d2 < 0 THEN 1 ELSE 0
        d3 == a[3] - b[3] - w2
        w3 == IF d3 < 0 THEN 1 ELSE 0
    IN  <<d1 + w1 * LimbBase, d2 + w2 * LimbBase, d3 + w3 * LimbBase,
          a[4] - b[4] - w3>>

\* a * n + c for small n and c
BigMulAdd(a, n, c) ==
    LET t1 == a[1] * n + c
        t2 == a[2] * n + (t1 \div LimbBase)
        t3 == a[3] * n + (t2 \div LimbBase)
        t4 == a[4] * n + (t3 \div LimbBase)
    IN  <<t1 % LimbBase, t2 % LimbBase, t3 % LimbBase, t4>>

BigHalve(a) ==
    <<(a[1] \div 2) + (a[2] % 2) * (LimbBase \div 2),
      (a[2] \div 2) + (a[3] % 2) * (LimbBase \div 2),
      (a[3] \div 2) + (a[4] % 2) * (LimbBase \div 2),
      a[4] \div 2>>

BigOdd(a) == a[1] % 2 = 1

\* the 53-bit significand after a carry out of the rounding
Renormalised(m, e) ==
    IF BigGe(m, TwoTo53) THEN [m |-> BigHalve(m), e |-> e + 1] ELSE [m |-> m, e |-> e]

\* scale the dividend n and the divisor d by powers of two until d <= n < 2d
RECURSIVE Normalise(_, _, _)
Normalise(n, d, s) ==
    IF ~BigGe(n, d) THEN Normalise(BigMulAdd(n, 2, 0), d, s - 1)
    ELSE IF BigGe(n, BigMulAdd(d, 2, 0)) THEN Normalise(n, BigMulAdd(d, 2, 0), s + 1)
    ELSE [n |-> n, d |-> d, s |-> s]

\* k more quotient bits by long division; z.q holds the bits found so far and
\* z.r the doubled remainder
RECURSIVE DivideBits(_, _, _)
DivideBits(z, d, k) ==
    IF k = 0 THEN z
    ELSE IF BigGe(z.r, d)
    THEN DivideBits([q |-> BigMulAdd(z.q, 2, 1),
                     r |-> BigMulAdd(BigSub(z.r, d), 2, 0)], d, k - 1)
    ELSE DivideBits([q |-> BigMulAdd(z.q, 2, 0),
                     r |-> BigMulAdd(z.r, 2, 0)], d, k - 1)

\* (n * 2^en) / (d * 2^ed), rounded to nearest, ties to even
BigDivide(n, en, d, ed) ==
    LET z == Normalise(n, d, 0)
        b == DivideBits([q |-> <<0, 0, 0, 0>>, r |-> z.n], z.d, 53)
        up == BigGe(b.r, z.d) /\ (b.r # z.d \/ BigOdd(b.q))
    IN  Renormalised(IF up THEN BigMulAdd(b.q, 1, 1) ELSE b.q, z.s - 52 + en - ed)

\* a / b for ints a, b > 0
float_div_int(a, b) == BigDivide(BigOfNat(a), 0, BigOfNat(b), 0)

\* a / f for an int a > 0 and a float f
float_div(a, f) == BigDivide(BigOfNat(a), 0, f.m, f.e)

\* drop low bits of p until it has 53, remembering the last bit dropped
\* (round) and whether an earlier one was set (sticky), then round
RECURSIVE RoundProduct(_, _, _, _)
RoundProduct(p, e, round, sticky) ==
    IF BigGe(p, TwoTo53)
    THEN RoundProduct(BigHalve(p), e + 1, p[1] % 2, sticky \/ round = 1)
    ELSE IF round = 1 /\ (sticky \/ BigOdd(p))
    THEN Renormalised(BigMulAdd(p, 1, 1), e)
    ELSE [m |-> p, e |-> e]

\* a * f for an int a > 0 and a float f
float_mul(a, f) == RoundProduct(BigMulAdd(f.m, a, 0), f.e, 0, FALSE)

\* f > g
float_gt(f, g) == f.e > g.e \/ (f.e = g.e /\ BigGe(f.m, g.m) /\ f.m # g.m)

\* int(f): truncation toward zero of a float below 2^30
RECURSIVE Truncate(_, _)
Truncate(m, e) ==
    IF e >= 0 \/ m = <<0, 0, 0, 0>> THEN NatOfBig(m)
    ELSE Truncate(BigHalve(m), e + 1)

float_int(f) == Truncate(f.m, f.e)

(***************************************************************************)
(* crop_to_aspect: the box (left, upper, right, lower) handed to img.crop  *)
(***************************************************************************)
crop_to_aspect(orig_w, orig_h, target_w, target_h) ==
    LET target_aspect == float_div_int(target_w, target_h)
        orig_aspect == float_div_int(orig_w, orig_h)
        new_height == float_int(float_div(orig_w, target_aspect))
        top == (orig_h - new_height) \div 2
        new_width == float_int(float_mul(orig_h, target_aspect))
        left == (orig_w - new_width) \div 2
    IN  IF float_gt(target_aspect, orig_aspect)
        THEN <<0, top, orig_w, top + new_height>>
        ELSE <<left, 0, left + new_width, orig_h>>

(***************************************************************************)
(* invalidate_cache (V5)                                                   *)
(***************************************************************************)
NoImage == [kind |-> "None"]
NoSettings == [kind |-> "None"]

\* self.templates = {} ; nothing returned by a direct call yet
NoTemplates == <<>>
NoResult == [kind |-> "None"]

\* what the handlers of the main window and of the preview leave alone
Untouched == UNCHANGED <<templates, returned>>

(***************************************************************************)
(* The direct call of recalc_layout (the layout engine's entry point).     *)
(* The except branch returns without a message box or a print, so the call *)
(* leaves no diagnostic.                                                   *)
(***************************************************************************)
RecalcLayoutCall ==
    /\ images' = recalc_layout(images, variant, collage_width_var, border_var)
    /\ IF variant = "V5" /\ layout_touches(images, variant, collage_width_var, border_var)
       THEN cached_collage' = NoImage /\ cached_collage_settings' = NoSettings
       ELSE UNCHANGED <<cached_collage, cached_collage_settings>>
    /\ lastOp' = "recalc_layout"
    /\ diag' = {}
    /\ UNCHANGED <<variant, collage_width_var, collage_height_var, border_var,
                   corner_radius_var, bg_color_var, scale_var, preview_open>>
    /\ Untouched

(***************************************************************************)
(* SpecLayout: recalc_layout as a function of its inputs.  The tile        *)
(* sequence, the canvas texts and the positions left by earlier passes are *)
(* drawn from bounded sets; the only step is the layout call.              *)
(***************************************************************************)
\* auto positions a tile can carry into a pass: never laid out, or a
\* position left by an earlier pass
PriorPositions == {<<None, None>>, <<70, 10>>}

LayoutEntries(v) ==
    IF v = "V5"
    THEN { [ImageEntry(s[1], s[2]) EXCEPT !.x = p[1], !.y = p[2],
                !.manual_x = m[1], !.manual_y = m[2], !.locked = l] :
             s \in Sizes, p \in PriorPositions,
             m \in {<<None, None>>, <<15, 25>>}, l \in BOOLEAN }
    ELSE { [ImageEntry(s[1], s[2]) EXCEPT !.x = p[1], !.y = p[2],
                !.manual_x = mx, !.manual_y = my] :
             s \in Sizes, p \in PriorPositions, mx \in ManualXs, my \in ManualYs }

LayoutSettings ==
    {<<"100", "10">>, <<"160", "10">>, <<"100", "0">>, <<"abc", "10">>, <<"100", "abc">>}

SeqsUpTo(S, n) == UNION { [1..k -> S] : k \in 0..n }

InitLayout ==
    /\ variant \in Variants
    /\ \E s \in LayoutSettings : collage_width_var = s[1] /\ border_var = s[2]
    /\ collage_height_var = "100"
    /\ corner_radius_var = "0"
    /\ images \in SeqsUpTo(LayoutEntries(variant), MaxLen)
    /\ bg_color_var = "#000000"
    /\ scale_var = (IF variant = "V5" THEN "1" ELSE "2")
    /\ templates = NoTemplates
    /\ preview_open = FALSE
    /\ cached_collage = NoImage
    /\ cached_collage_settings = NoSettings
    /\ returned = NoResult
    /\ lastOp = "init"
    /\ diag = {}

NextLayout == RecalcLayoutCall

SpecLayout == InitLayout /\ [][NextLayout]_vars

(***************************************************************************)
(* build_collage                                                           *)
(***************************************************************************)
composite_settings_valid(width_text, height_text, border_text, radius_text) ==
    IsInt(width_text) /\ IsInt(height_text) /\ IsInt(border_text) /\ IsInt(radius_text)

\* the global corner-radius setting deciding in both variants
mask_radius_global(entry, v, corner_radius) == IF corner_radius > 0 THEN corner_radius ELSE 0

\* the mask radius of a tile: its own corner radius in V5, the global
\* corner-radius setting in Collage.py; 0 stands for "no mask"
mask_radius(entry, v, corner_radius) ==
    IF v = "V5"
    THEN (IF entry.corner_radius > 0 THEN entry.corner_radius ELSE 0)
    ELSE (IF corner_radius > 0 THEN corner_radius ELSE 0)

\* the colours the model writes as #RRGGBB texts; any other text gives black
HexColors == {"#000000", "#FFFFFF", "#FF0000", "#00FF00", "#0000FF"}

parse_hex_color(hex_color) ==
    IF hex_color \in HexColors THEN hex_color ELSE "#000000"

\* whether the try block (Image.open, crop_to_aspect, resize) succeeds
tile_loads(entry) == entry.bitmap.readable

\* whether Image.open returns the bitmap of the tile
tile_opens(entry) == entry.bitmap.opens

\* the bitmap handle of a tile when its step of the loop ends: Collage.py
\* opens it in a with block, which closes it on every exit; Collage-V5 calls
\* im.close() as the last statement of the try block, which a raise in
\* crop_to_aspect or resize passes over
handle_after(entry, v) ==
    IF ~tile_opens(entry) THEN "unopened"
    ELSE IF tile_loads(entry) THEN "closed"
    ELSE IF v = "V5" THEN "open" ELSE "closed"

\* whether the step of tile i raises the TypeError of x + target_w
step_raises(laid, i) ==
    /\ tile_loads(laid[i])
    /\ paint_pos(laid[i])[1] = None \/ paint_pos(laid[i])[2] = None

\* the handles when build_collage is left: the loop does not reach the tiles
\* after one whose step raises
handles(laid, v) ==
    [i \in 1..Len(laid) |->
        IF \E j \in 1..(i - 1) : step_raises(laid, j)
        THEN "unopened" ELSE handle_after(laid[i], v)]

\* the rounded-rectangle mask of a width x height tile at the tile-local pixel
\* (lx, ly): opaque except beyond the quarter circles of the four corners of
\* the box (0, 0, width, height)
create_rounded_mask(width, height, corner_radius, lx, ly) ==
    LET dx == IF lx < corner_radius THEN corner_radius - lx
              ELSE IF lx > width - corner_radius THEN lx - (width - corner_radius)
              ELSE 0
        dy == IF ly < corner_radius THEN corner_radius - ly
              ELSE IF ly > height - corner_radius THEN ly - (height - corner_radius)
              ELSE 0
    IN  dx * dx + dy * dy <= corner_radius * corner_radius

\* clipping against the canvas instead of the safe area
paste_of_canvas_clip(entry, v, cw, ch, border, corner_radius) ==
    LET p == paint_pos(entry)
        x == p[1]
        y == p[2]
        inter == <<Max(x, 0), Max(y, 0),
                   Min(x + entry.target_w, cw), Min(y + entry.target_h, ch)>>
    IN  [size |-> <<entry.target_w, entry.target_h>>,
         inter |-> inter,
         src |-> <<inter[1] - x, inter[2] - y,
                   (inter[1] - x) + (inter[3] - inter[1]),
                   (inter[2] - y) + (inter[4] - inter[2])>>,
         radius |-> mask_radius(entry, v, corner_radius),
         mask_size |-> <<entry.target_w, entry.target_h>>,
         mask_src |-> <<inter[1] - x, inter[2] - y,
                        (inter[1] - x) + (inter[3] - inter[1]),
                        (inter[2] - y) + (inter[4] - inter[2])>>,
         color |-> entry.bitmap.color,
         loaded |-> tile_loads(entry)]

\* img_box, inter and the tile-local source rectangle of one tile
paste_of(entry, v, cw, ch, border, corner_radius) ==
    LET p == paint_pos(entry)
        x == p[1]
        y == p[2]
        inter == <<Max(x, border), Max(y, border),
                   Min(x + entry.target_w, cw - border),
                   Min(y + entry.target_h, ch - border)>>
    IN  [size |-> <<entry.target_w, entry.target_h>>,
         inter |-> inter,
         src |-> <<inter[1] - x, inter[2] - y,
                   (inter[1] - x) + (inter[3] - inter[1]),
                   (inter[2] - y) + (inter[4] - inter[2])>>,
         radius |-> mask_radius(entry, v, corner_radius),
         mask_size |-> <<entry.target_w, entry.target_h>>,
         mask_src |-> <<inter[1] - x, inter[2] - y,
                        (inter[1] - x) + (inter[3] - inter[1]),
                        (inter[2] - y) + (inter[4] - inter[2])>>,
         color |-> entry.bitmap.color,
         loaded |-> tile_loads(entry)]

\* painting in reverse sequence order
pastes_reversed(imgs, v, cw, ch, border, corner_radius) ==
    SelectSeq([i \in 1..Len(imgs) |->
                  paste_of(imgs[Len(imgs) + 1 - i], v, cw, ch, border, corner_radius)],
              LAMBDA q : q.loaded /\ q.inter[1] < q.inter[3] /\ q.inter[2] < q.inter[4])

\* painting that stops at the first tile that fails to load
pastes_stop_at_failure(imgs, v, cw, ch, border, corner_radius) ==
    SelectSeq([i \in 1..Len(imgs) |->
                  [paste_of(imgs[i], v, cw, ch, border, corner_radius)
                      EXCEPT !.loaded = \A j \in 1..i : tile_loads(imgs[j])]],
              LAMBDA q : q.loaded /\ q.inter[1] < q.inter[3] /\ q.inter[2] < q.inter[4])

\* the canvas as the sequence of paste operations applied to the background:
\* a tile that fails to load is passed over with `continue', a tile whose
\* intersection with the safe area is empty is not pasted
pastes(imgs, v, cw, ch, border, corner_radius) ==
    SelectSeq([i \in 1..Len(imgs) |->
                  paste_of(imgs[i], v, cw, ch, border, corner_radius)],
              LAMBDA q : q.loaded /\ q.inter[1] < q.inter[3] /\ q.inter[2] < q.inter[4])

\* whether a paste writes the canvas pixel (px, py)
paste_covers(q, px, py) ==
    /\ q.inter[1] <= px /\ px < q.inter[3]
    /\ q.inter[2] <= py /\ py < q.inter[4]
    /\ \/ q.radius = 0
       \/ create_rounded_mask(q.mask_size[1], q.mask_size[2], q.radius,
                              q.mask_src[1] + (px - q.inter[1]),
                              q.mask_src[2] + (py - q.inter[2]))

\* the colour of pixel (px, py) of a collage: the last paste that wrote it,
\* the background where none did
pixel(image, px, py) ==
    LET hits == { k \in 1..Len(image.pastes) : paste_covers(image.pastes[k], px, py) }
    IN  IF hits = {} THEN image.bg
        ELSE image.pastes[CHOOSE k \in hits : \A j \in hits : j <= k].color

build_collage_layout_first(imgs, v, width_text, height_text, border_text, radius_text, bg_text) ==
    [status |-> IF composite_settings_valid(width_text, height_text, border_text,
                                            radius_text)
                THEN "ok" ELSE "None",
     images |-> recalc_layout(imgs, v, width_text, border_text),
     image |-> NoImage,
     handles |-> [i \in 1..Len(imgs) |-> "unopened"],
     touched |-> layout_touches(imgs, v, width_text, border_text)]

\* status "None": the settings are malformed, a warning is shown, None returned
\* status "raise": x or y of a loaded tile is None and x + target_w raises
\*                 TypeError
\* status "ok": the collage is returned
build_collage(imgs, v, width_text, height_text, border_text, radius_text, bg_text) ==
    IF ~composite_settings_valid(width_text, height_text, border_text, radius_text)
    THEN [status |-> "None", images |-> imgs, image |-> NoImage,
          handles |-> [i \in 1..Len(imgs) |-> "unopened"], touched |-> FALSE]
    ELSE LET laid == recalc_layout(imgs, v, width_text, border_text)
             touched == layout_touches(imgs, v, width_text, border_text)
         IN  IF \E i \in 1..Len(laid) : step_raises(laid, i)
             THEN [status |-> "raise", images |-> laid, image |-> NoImage,
                   handles |-> handles(laid, v), touched |-> touched]
             ELSE [status |-> "ok", images |-> laid,
                   image |-> [kind |-> "img",
                              size |-> <<int(width_text), int(height_text)>>,
                              bg |-> parse_hex_color(bg_text),
                              pastes |-> pastes(laid, v, int(width_text),
                                                int(height_text), int(border_text),
                                                int(radius_text))],
                   handles |-> handles(laid, v), touched |-> touched]

build_diag(status) ==
    IF status = "None" THEN {"Invalid Settings"}
    ELSE IF status = "raise" THEN {"TypeError"}
    ELSE {}

(***************************************************************************)
(* update_preview                                                          *)
(***************************************************************************)
\* current_settings of Collage-V5
current_settings(imgs, width_text, height_text, border_text, bg_text) ==
    [kind |-> "settings", width |-> width_text, height |-> height_text,
     border |-> border_text, bg_color |-> bg_text, n |-> Len(imgs),
     tiles |-> [i \in 1..Len(imgs) |->
                  <<imgs[i].target_w, imgs[i].target_h,
                    get_display_pos(imgs[i]), imgs[i].locked>>]]

cache_reused(imgs, cc, cs, width_text, height_text, border_text, bg_text) ==
    /\ cc # NoImage
    /\ cs = current_settings(imgs, width_text, height_text, border_text, bg_text)

\* the tiles, the cache and the diagnostics update_preview leaves behind
update_preview(imgs, cc, cs, v, width_text, height_text, border_text, radius_text, bg_text) ==
    LET b == build_collage(imgs, v, width_text, height_text, border_text, radius_text,
                           bg_text)
    IN  IF v # "V5"
        THEN [images |-> b.images, cached_collage |-> cc,
              cached_collage_settings |-> cs, diag |-> build_diag(b.status)]
        ELSE IF cache_reused(imgs, cc, cs, width_text, height_text, border_text, bg_text)
        THEN [images |-> imgs, cached_collage |-> cc,
              cached_collage_settings |-> cs, diag |-> {}]
        ELSE IF b.status = "raise"
        THEN [images |-> b.images,
              cached_collage |-> IF b.touched THEN NoImage ELSE cc,
              cached_collage_settings |-> IF b.touched THEN NoSettings ELSE cs,
              diag |-> build_diag(b.status)]
        ELSE [images |-> b.images, cached_collage |-> b.image,
              cached_collage_settings |->
                  current_settings(imgs, width_text, height_text, border_text, bg_text),
              diag |-> build_diag(b.status)]

(***************************************************************************)
(* The editing session                                                     *)
(***************************************************************************)
\* what the image dialog submits: target size, manual position, lock, radius
DialogSizes == Sizes \cup {<<0, 20>>}

DialogOptions(v) ==
    IF v = "V5"
    THEN {<<None, None, FALSE, 0>>, <<None, None, TRUE, 0>>, <<15, 25, FALSE, 0>>}
    ELSE {<<None, None, FALSE, 0>>, <<15, 25, FALSE, 0>>}

DialogInputs(v) ==
    { [tw |-> s[1], th |-> s[2], manual_x |-> o[1], manual_y |-> o[2],
       locked |-> o[3], corner_radius |-> o[4], template_tag |-> NoTag] :
        s \in DialogSizes, o \in DialogOptions(v) }

\* the submissions tried in the preview session
PreviewDialogInputs(v) ==
    { [tw |-> s[1], th |-> s[2], manual_x |-> None, manual_y |-> None,
       locked |-> FALSE, corner_radius |-> r, template_tag |-> NoTag] :
        s \in {<<50, 20>>, <<0, 20>>}, r \in (IF v = "V5" THEN Radii ELSE {0}) }

\* the submissions tried in the template session; the Template combobox is
\* read-only and offers the names of the saved templates
TemplateTags == {NoTag, "T"}

TemplateDialogInputs(v) ==
    { [tw |-> s[1], th |-> s[2], manual_x |-> None, manual_y |-> None,
       locked |-> FALSE, corner_radius |-> 0, template_tag |-> t] :
        s \in {<<30, 40>>, <<0, 20>>}, t \in (IF v = "V5" THEN TemplateTags ELSE {NoTag}) }

TagOffered(d) == d.template_tag = NoTag \/ d.template_tag \in DOMAIN templates

dialog_entry(old, d) ==
    [old EXCEPT !.target_w = d.tw, !.target_h = d.th,
                !.manual_x = d.manual_x, !.manual_y = d.manual_y,
                !.locked = d.locked, !.corner_radius = d.corner_radius,
                !.template_tag = d.template_tag]

Invalidate == cached_collage' = NoImage /\ cached_collage_settings' = NoSettings

SettingsUnchanged ==
    UNCHANGED <<variant, collage_width_var, collage_height_var, border_var,
                corner_radius_var, bg_color_var, scale_var>>

(***************************************************************************)
(* SpecRows: recalc_layout on rows of tiles, on wide and on narrow          *)
(* canvases.  A tile is either laid out or left out by the pass.           *)
(***************************************************************************)
RowEntries(v) ==
    { [ImageEntry(size[1], size[2])
          EXCEPT !.locked = (left_out /\ v = "V5"),
                 !.manual_x = IF left_out /\ v # "V5" THEN 15 ELSE None,
                 !.manual_y = IF left_out /\ v # "V5" THEN 25 ELSE None] :
        size \in Sizes, left_out \in BOOLEAN }

\* collage width and border: rows of two and three tiles; a second tile of
\* which exactly half overflows; a canvas narrower than a tile; a canvas
\* without room between its borders; no border
RowSettings ==
    {<<"100", "10">>, <<"160", "10">>, <<"75", "10">>, <<"40", "10">>, <<"20", "10">>,
     <<"100", "0">>}

InitRows ==
    /\ variant \in Variants
    /\ \E s \in RowSettings : collage_width_var = s[1] /\ border_var = s[2]
    /\ collage_height_var = "100"
    /\ corner_radius_var = "0"
    /\ images \in SeqsUpTo(RowEntries(variant), MaxRowLen)
    /\ bg_color_var = "#000000"
    /\ scale_var = (IF variant = "V5" THEN "1" ELSE "2")
    /\ templates = NoTemplates
    /\ preview_open = FALSE
    /\ cached_collage = NoImage
    /\ cached_collage_settings = NoSettings
    /\ returned = NoResult
    /\ lastOp = "init"
    /\ diag = {}

NextRows == RecalcLayoutCall

SpecRows == InitRows /\ [][NextRows]_vars

\* the user types into the Collage Width entry (bound to the StringVar)
TypeWidth(t) ==
    /\ collage_width_var' = t
    /\ lastOp' = "type_width"
    /\ diag' = {}
    /\ UNCHANGED <<variant, collage_height_var, border_var, corner_radius_var,
                   bg_color_var, scale_var, images, preview_open, cached_collage,
                   cached_collage_settings>>
    /\ Untouched

\* the user types into the Border entry
TypeBorder(t) ==
    /\ border_var' = t
    /\ lastOp' = "type_border"
    /\ diag' = {}
    /\ UNCHANGED <<variant, collage_width_var, collage_height_var, corner_radius_var,
                   bg_color_var, scale_var, images, preview_open, cached_collage,
                   cached_collage_settings>>
    /\ Untouched

\* the user types into the Scale entry
TypeScale(t) ==
    /\ scale_var' = t
    /\ lastOp' = "type_scale"
    /\ diag' = {}
    /\ UNCHANGED <<variant, collage_width_var, collage_height_var, border_var,
                   corner_radius_var, bg_color_var, images, preview_open,
                   cached_collage, cached_collage_settings>>
    /\ Untouched

\* OK in the image dialog opened by add_image
on_ok_add(d) ==
    /\ lastOp' = "on_ok_add"
    /\ IF d.tw <= 0 \/ d.th <= 0
       THEN /\ diag' = {"Invalid Size"}
            /\ UNCHANGED <<images, cached_collage, cached_collage_settings>>
       ELSE /\ images' = recalc_layout(
                            Append(images, dialog_entry(ImageEntry(d.tw, d.th), d)),
                            variant, collage_width_var, border_var)
            /\ diag' = {}
            /\ IF variant = "V5" THEN Invalidate
               ELSE UNCHANGED <<cached_collage, cached_collage_settings>>
    /\ SettingsUnchanged
    /\ UNCHANGED preview_open
    /\ Untouched

\* OK in the image dialog opened by edit_selected_image on tile k
on_ok_edit(k, d) ==
    /\ k \in 1..Len(images)
    /\ lastOp' = "on_ok_edit"
    /\ IF d.tw <= 0 \/ d.th <= 0
       THEN /\ diag' = {"Invalid Size"}
            /\ UNCHANGED <<images, cached_collage, cached_collage_settings>>
       ELSE /\ images' = recalc_layout(
                            [images EXCEPT ![k] = dialog_entry(images[k], d)],
                            variant, collage_width_var, border_var)
            /\ diag' = {}
            /\ IF variant = "V5" THEN Invalidate
               ELSE UNCHANGED <<cached_collage, cached_collage_settings>>
    /\ SettingsUnchanged
    /\ UNCHANGED preview_open
    /\ Untouched

RemoveAt(seq, k) == SubSeq(seq, 1, k - 1) \o SubSeq(seq, k + 1, Len(seq))

remove_selected_image(k) ==
    /\ k \in 1..Len(images)
    /\ images' = recalc_layout(RemoveAt(images, k), variant,
                               collage_width_var, border_var)
    /\ IF variant = "V5" THEN Invalidate
       ELSE UNCHANGED <<cached_collage, cached_collage_settings>>
    /\ lastOp' = "remove_selected_image"
    /\ diag' = {}
    /\ SettingsUnchanged
    /\ UNCHANGED preview_open
    /\ Untouched

\* the tiles, cache and diagnostics after update_preview ran on imgs / cc / cs
PreviewUpdated(imgs, cc, cs, extra) ==
    LET u == update_preview(imgs, cc, cs, variant, collage_width_var,
                            collage_height_var, border_var, corner_radius_var,
                            bg_color_var)
    IN  /\ images' = u.images
        /\ cached_collage' = u.cached_collage
        /\ cached_collage_settings' = u.cached_collage_settings
        /\ diag' = u.diag \cup extra

show_preview ==
    /\ ~preview_open
    /\ lastOp' = "show_preview"
    /\ IF Len(images) = 0
       THEN /\ diag' = {"No Images"}
            /\ UNCHANGED <<images, preview_open, cached_collage, cached_collage_settings>>
       ELSE /\ preview_open' = TRUE
            /\ PreviewUpdated(images, NoImage, NoSettings, {})
    /\ SettingsUnchanged
    /\ Untouched

\* Refresh in Collage.py; the zoom buttons in Collage-V5
refresh_preview ==
    /\ preview_open
    /\ lastOp' = "update_preview"
    /\ PreviewUpdated(images, cached_collage, cached_collage_settings, {})
    /\ SettingsUnchanged
    /\ UNCHANGED preview_open
    /\ Untouched

toggle_lock_selected(k) ==
    /\ variant = "V5"
    /\ preview_open
    /\ k \in 1..Len(images)
    /\ lastOp' = "toggle_lock_selected"
    /\ PreviewUpdated([images EXCEPT ![k].locked = ~images[k].locked],
                      NoImage, NoSettings, {"Lock Toggled"})
    /\ SettingsUnchanged
    /\ UNCHANGED preview_open
    /\ Untouched

set_manual_position(k, new_x, new_y) ==
    /\ variant = "V5"
    /\ preview_open
    /\ k \in 1..Len(images)
    /\ lastOp' = "set_manual_position"
    /\ PreviewUpdated([images EXCEPT ![k].manual_x = new_x, ![k].manual_y = new_y,
                                     ![k].locked = TRUE],
                      NoImage, NoSettings, {})
    /\ SettingsUnchanged
    /\ UNCHANGED preview_open
    /\ Untouched

(***************************************************************************)
(* The project file (Collage-V5): a JSON document                          *)
(***************************************************************************)
\* JSON values as json.dumps writes and json.loads reads them
JNull == [t |-> "null"]
JNumber(n) == [t |-> "number", v |-> n]
JString(text) == [t |-> "string", v |-> text]
JBool(b) == [t |-> IF b THEN "true" ELSE "false"]

\* json.dumps of an int or None, of a str or None, and json.loads back
json_of_int(n) == IF n = None THEN JNull ELSE JNumber(n)
json_of_tag(tag) == IF tag = NoTag THEN JNull ELSE JString(tag)
int_of_json(j) == IF j.t = "null" THEN None ELSE j.v
tag_of_json(j) == IF j.t = "null" THEN NoTag ELSE j.v
bool_of_json(j) == j.t = "true"

\* base64.b64encode of the bytes of a bitmap; b64decode raises when ok is FALSE
b64encode(bitmap) == [t |-> "base64", ok |-> TRUE, bytes |-> bitmap]

CollageSettingsKeys == <<"width", "height", "border", "bg_color", "corner_radius">>

ImgInfoKeys ==
    {"orig_w", "orig_h", "target_w", "target_h", "manual_x", "manual_y", "x", "y",
     "locked", "filename", "template_tag", "image_data"}

\* the keys import_project reads with img_info[...]; the others are read
\* with img_info.get(..., default)
RequiredImgInfoKeys == ImgInfoKeys \ {"locked", "filename", "template_tag"}

\* exporting the displayed position in place of the automatic one
img_info_display_pos(entry) ==
    [keys |-> ImgInfoKeys,
     orig_w |-> json_of_int(entry.orig_w), orig_h |-> json_of_int(entry.orig_h),
     target_w |-> json_of_int(entry.target_w),
     target_h |-> json_of_int(entry.target_h),
     manual_x |-> json_of_int(entry.manual_x),
     manual_y |-> json_of_int(entry.manual_y),
     x |-> json_of_int(get_display_pos(entry)[1]),
     y |-> json_of_int(get_display_pos(entry)[2]),
     locked |-> JBool(entry.locked),
     template_tag |-> json_of_tag(entry.template_tag),
     image_data |-> b64encode(entry.bitmap)]

\* the img_info object export_project writes for one tile
img_info(entry) ==
    [keys |-> ImgInfoKeys,
     orig_w |-> json_of_int(entry.orig_w), orig_h |-> json_of_int(entry.orig_h),
     target_w |-> json_of_int(entry.target_w),
     target_h |-> json_of_int(entry.target_h),
     manual_x |-> json_of_int(entry.manual_x),
     manual_y |-> json_of_int(entry.manual_y),
     x |-> json_of_int(entry.x), y |-> json_of_int(entry.y),
     locked |-> JBool(entry.locked),
     template_tag |-> json_of_tag(entry.template_tag),
     image_data |-> b64encode(entry.bitmap)]

\* project_data of export_project as written to the file: json is FALSE for
\* a file json.loads rejects, has_settings and has_images tell whether the
\* two top-level keys are present
project_data(width, height, border, bg_color, corner_radius, scale, imgs) ==
    [json |-> TRUE, has_settings |-> TRUE, has_images |-> TRUE,
     settings_keys |-> {CollageSettingsKeys[k] : k \in 1..Len(CollageSettingsKeys)}
                          \cup {"scale"},
     width |-> JString(width), height |-> JString(height),
     border |-> JString(border), bg_color |-> JString(bg_color),
     corner_radius |-> JString(corner_radius), scale |-> JString(scale),
     images |-> [i \in 1..Len(imgs) |-> img_info(imgs[i])]]

\* whether open(entry.path, "rb") of export_project succeeds
file_readable(entry) == entry.bitmap.opens

\* export_project: the file written is kept in `returned', next to the
\* tiles and settings of the moment of the export
export_project ==
    /\ variant = "V5"
    /\ lastOp' = "export_project"
    /\ IF \A i \in 1..Len(images) : file_readable(images[i])
       THEN /\ returned' = [kind |-> "export_project",
                            file |-> project_data(collage_width_var, collage_height_var,
                                                  border_var, bg_color_var,
                                                  corner_radius_var, scale_var, images),
                            images |-> images,
                            settings |-> <<collage_width_var, collage_height_var,
                                           border_var, bg_color_var,
                                           corner_radius_var, scale_var>>]
            /\ diag' = {"Export Successful"}
       ELSE /\ returned' = NoResult
            /\ diag' = {"Error"}
    /\ SettingsUnchanged
    /\ UNCHANGED <<images, templates, preview_open, cached_collage,
                   cached_collage_settings>>

\* the ImageEntry import_project builds from one img_info
entry_of_info(info) ==
    [ImageEntry(int_of_json(info.target_w), int_of_json(info.target_h))
        EXCEPT !.orig_w = int_of_json(info.orig_w),
               !.orig_h = int_of_json(info.orig_h),
               !.manual_x = int_of_json(info.manual_x),
               !.manual_y = int_of_json(info.manual_y),
               !.x = int_of_json(info.x), !.y = int_of_json(info.y),
               !.locked = IF "locked" \in info.keys
                          THEN bool_of_json(info.locked) ELSE FALSE,
               !.template_tag = IF "template_tag" \in info.keys
                                THEN tag_of_json(info.template_tag) ELSE NoTag,
               !.bitmap = info.image_data.bytes]

\* the number of cset[...] reads that succeed before the first KeyError
settings_read(file) ==
    IF ~file.json \/ ~file.has_settings THEN 0
    ELSE Cardinality({ k \in 1..Len(CollageSettingsKeys) :
                          \A j \in 1..k : CollageSettingsKeys[j] \in file.settings_keys })

\* whether the body of the loop over project_data["images"] passes for info
img_info_loads(info) == RequiredImgInfoKeys \subseteq info.keys /\ info.image_data.ok

\* the number of tiles appended before the first failure
images_read(file) ==
    Cardinality({ i \in 1..Len(file.images) :
                     \A j \in 1..i : img_info_loads(file.images[j]) })

\* the settings and tiles import_project leaves: the statements of its try
\* block take effect one by one until one of them raises
import_result(file) ==
    LET n == settings_read(file)
        all == Len(CollageSettingsKeys)
        m == images_read(file)
    IN  [width |-> IF n >= 1 THEN file.width.v ELSE collage_width_var,
         height |-> IF n >= 2 THEN file.height.v ELSE collage_height_var,
         border |-> IF n >= 3 THEN file.border.v ELSE border_var,
         bg_color |-> IF n >= 4 THEN file.bg_color.v ELSE bg_color_var,
         corner_radius |-> IF n >= 5 THEN file.corner_radius.v ELSE corner_radius_var,
         scale |-> IF n = all
                   THEN (IF "scale" \in file.settings_keys THEN file.scale.v ELSE "2")
                   ELSE scale_var,
         images |-> IF n < all THEN images
                    ELSE IF ~file.has_images THEN <<>>
                    ELSE [i \in 1..m |-> entry_of_info(file.images[i])],
         ok |-> n = all /\ file.has_images /\ m = Len(file.images)]

\* project files offered to import_project
ImportedTile(tw, th, x, y, locked) ==
    [ImageEntry(tw, th) EXCEPT !.x = x, !.y = y, !.locked = locked]

Projects ==
    { project_data("100", "1080", "10", "#000000", "0", "2", imgs) :
        imgs \in {
                   <<ImportedTile(50, 20, 10, 10, FALSE)>>,
                   <<ImportedTile(30, 40, None, None, TRUE)>> } }

import_project(project) ==
    /\ variant = "V5"
    /\ LET r == import_result(project)
       IN  /\ collage_width_var' = r.width
           /\ collage_height_var' = r.height
           /\ border_var' = r.border
           /\ bg_color_var' = r.bg_color
           /\ corner_radius_var' = r.corner_radius
           /\ scale_var' = r.scale
           /\ images' = r.images
           /\ diag' = IF r.ok THEN {"Import Successful"} ELSE {"Error"}
    /\ lastOp' = "import_project"
    /\ UNCHANGED <<variant, preview_open, cached_collage, cached_collage_settings>>
    /\ Untouched

\* the template manager of Collage-V5: names, widths and heights typed into
\* the Add Template dialog
TemplateNames == {"T", ""}
TemplateSizes == {<<50, 20>>, <<0, 20>>}

update_images_with_template(imgs, template_name, template) ==
    [i \in 1..Len(imgs) |->
        IF imgs[i].template_tag = template_name
        THEN [imgs[i] EXCEPT !.target_w = template.width,
                             !.target_h = template.height,
                             !.corner_radius = template.corner_radius]
        ELSE imgs[i]]

\* Save in the Add Template dialog
save_template(name, width, height, corner_radius) ==
    LET template == [width |-> width, height |-> height,
                     corner_radius |-> corner_radius]
        updated_count == Cardinality({ i \in 1..Len(images) :
                                         images[i].template_tag = name })
        laid == recalc_layout(update_images_with_template(images, name, template),
                              variant, collage_width_var, border_var)
    IN  /\ variant = "V5"
        /\ lastOp' = "save_template"
        /\ IF name = ""
           THEN /\ diag' = {"Invalid Input"}
                /\ UNCHANGED <<images, templates, cached_collage,
                               cached_collage_settings>>
           ELSE /\ templates' = [n \in DOMAIN templates \cup {name} |->
                                   IF n = name THEN template ELSE templates[n]]
                /\ IF updated_count = 0
                   THEN /\ Invalidate
                        /\ diag' = {}
                        /\ UNCHANGED images
                   ELSE IF preview_open
                   THEN PreviewUpdated(laid, NoImage, NoSettings, {"Template Updated"})
                   ELSE /\ Invalidate
                        /\ diag' = {"Template Updated"}
                        /\ images' = laid
        /\ SettingsUnchanged
        /\ UNCHANGED <<preview_open, returned>>

Init ==
    /\ variant \in Variants
    /\ collage_width_var = "1920"
    /\ collage_height_var = "1080"
    /\ border_var = (IF variant = "V5" THEN "10" ELSE "20")
    /\ corner_radius_var = "0"
    /\ images = <<>>
    /\ bg_color_var = "#000000"
    /\ scale_var = (IF variant = "V5" THEN "1" ELSE "2")
    /\ templates = NoTemplates
    /\ preview_open = FALSE
    /\ cached_collage = NoImage
    /\ cached_collage_settings = NoSettings
    /\ returned = NoResult
    /\ lastOp = "init"
    /\ diag = {}

\* Spec: the editing session in the main window (the preview is never opened)
Next ==
    \/ \E t \in WidthTexts : TypeWidth(t)
    \/ Len(images) < MaxImages /\ \E d \in DialogInputs(variant) : on_ok_add(d)
    \/ \E k \in 1..MaxImages, d \in DialogInputs(variant) : on_ok_edit(k, d)
    \/ \E k \in 1..MaxImages : remove_selected_image(k)
    \/ RecalcLayoutCall

Spec == Init /\ [][Next]_vars

\* SpecPreview: the session with the preview window
NextPreview ==
    \/ \E t \in PreviewWidthTexts : TypeWidth(t)
    \/ \E t \in PreviewBorderTexts : TypeBorder(t)
    \/ Len(images) < MaxPreviewImages
          /\ \E d \in PreviewDialogInputs(variant) : on_ok_add(d)
    \/ \E k \in 1..MaxPreviewImages, d \in PreviewDialogInputs(variant) : on_ok_edit(k, d)
    \/ \E k \in 1..MaxPreviewImages : remove_selected_image(k)
    \/ show_preview
    \/ refresh_preview
    \/ \E k \in 1..MaxPreviewImages : toggle_lock_selected(k)
    \/ \E k \in 1..MaxPreviewImages : set_manual_position(k, 15, 25)
    \/ \E project \in Projects : import_project(project)

SpecPreview == Init /\ [][NextPreview]_vars

\* SpecTemplates: the session with the template manager
NextTemplates ==
    \/ Len(images) < MaxTemplateImages
          /\ \E d \in TemplateDialogInputs(variant) : TagOffered(d) /\ on_ok_add(d)
    \/ \E k \in 1..MaxTemplateImages, d \in TemplateDialogInputs(variant) :
          (TagOffered(d) \/ (k <= Len(images) /\ d.template_tag = images[k].template_tag))
             /\ on_ok_edit(k, d)
    \/ \E name \in TemplateNames, s \in TemplateSizes : save_template(name, s[1], s[2], 0)
    \/ \E project \in Projects : import_project(project)

SpecTemplates == Init /\ [][NextTemplates]_vars

(***************************************************************************)
(* The direct call of build_collage (as save_collage makes it).            *)
(***************************************************************************)
BuildCollageCall ==
    LET b == build_collage(images, variant, collage_width_var, collage_height_var,
                           border_var, corner_radius_var, bg_color_var)
    IN  /\ images' = b.images
        /\ returned' = [kind |-> "build_collage", status |-> b.status,
                        image |-> b.image, handles |-> b.handles]
        /\ diag' = build_diag(b.status) \cup
                      (IF b.status = "ok" /\ \E i \in 1..Len(images) : ~tile_loads(images[i])
                       THEN {"Error processing"} ELSE {})
        /\ IF variant = "V5" /\ b.touched
           THEN cached_collage' = NoImage /\ cached_collage_settings' = NoSettings
           ELSE UNCHANGED <<cached_collage, cached_collage_settings>>
        /\ lastOp' = "build_collage"
        /\ SettingsUnchanged
        /\ UNCHANGED <<templates, preview_open>>

(***************************************************************************)
(* SpecCompose: build_collage as a function of its inputs.  The tiles, with *)
(* the bitmaps behind them, and the canvas texts are drawn from bounded    *)
(* sets; the only step is the call.                                        *)
(***************************************************************************)
ComposeTile(tw, th, mx, my, locked, radius, readable, color) ==
    [ImageEntry(tw, th) EXCEPT !.manual_x = mx, !.manual_y = my, !.locked = locked,
                               !.corner_radius = radius,
                               !.bitmap = Bitmap(readable, 400, 400, color)]

\* laid out automatically; placed by hand over the first column and across the
\* border; placed by hand far outside the canvas; a file that does not open;
\* a file that opens and does not decode
ComposeEntries(v) ==
    { ComposeTile(20, 10, None, None, FALSE, 0, TRUE, "#FF0000"),
      ComposeTile(10, 10, None, None, FALSE, 0, TRUE, "#00FF00"),
      ComposeTile(30, 30, 3, 3, FALSE, 0, TRUE, "#0000FF"),
      ComposeTile(20, 10, -1000, -1000, FALSE, 0, TRUE, "#FFFFFF"),
      ComposeTile(20, 10, None, None, FALSE, 0, FALSE, "#00FF00"),
      [ComposeTile(20, 10, None, None, FALSE, 0, FALSE, "#0000FF")
          EXCEPT !.bitmap = TruncatedBitmap(400, 400, "#0000FF")] }
    \cup
    (IF v = "V5"
     THEN { ComposeTile(20, 10, None, None, FALSE, 4, TRUE, "#0000FF"),
            ComposeTile(20, 10, None, None, TRUE, 0, TRUE, "#FF0000"),
            ComposeTile(20, 10, None, None, TRUE, 0, FALSE, "#FF0000") }
     ELSE {})

\* collage width, height, border, corner radius
ComposeSettings ==
    { <<"40", "40", "0", "0">>, <<"40", "40", "5", "0">>, <<"40", "40", "5", "4">>,
      <<"40", "40", "20", "0">>,
      <<"abc", "40", "5", "0">>, <<"40", "abc", "5", "0">>,
      <<"40", "40", "abc", "0">>, <<"40", "40", "5", "abc">> }

\* the end-to-end scenario: a 200x200 canvas without border and one 200x200 tile
ScenarioSettings == <<"200", "200", "0", "0">>
ScenarioEntries == { ComposeTile(200, 200, None, None, FALSE, 0, TRUE, "#FF0000") }

InitCompose ==
    /\ variant \in Variants
    /\ \/ /\ \E s \in ComposeSettings :
                /\ collage_width_var = s[1] /\ collage_height_var = s[2]
                /\ border_var = s[3] /\ corner_radius_var = s[4]
          /\ images \in SeqsUpTo(ComposeEntries(variant), MaxTiles)
       \/ /\ collage_width_var = ScenarioSettings[1]
          /\ collage_height_var = ScenarioSettings[2]
          /\ border_var = ScenarioSettings[3]
          /\ corner_radius_var = ScenarioSettings[4]
          /\ images \in SeqsUpTo(ScenarioEntries, 1)
    /\ bg_color_var = "#000000"
    /\ scale_var = (IF variant = "V5" THEN "1" ELSE "2")
    /\ templates = NoTemplates
    /\ preview_open = FALSE
    /\ cached_collage = NoImage
    /\ cached_collage_settings = NoSettings
    /\ returned = NoResult
    /\ lastOp = "init"
    /\ diag = {}

NextCompose == BuildCollageCall

SpecCompose == InitCompose /\ [][NextCompose]_vars

(***************************************************************************)
(* SpecProject: export_project and import_project of Collage-V5.  The      *)
(* session starts with tiles as the dialogs, the layout and the preview    *)
(* leave them, is exported, edited, and a file is imported.                *)
(***************************************************************************)
\* a fresh tile; a tile tagged, locked and placed by hand; a tile whose file
\* is gone from disk
ProjectEntries ==
    { ImageEntry(50, 20),
      [ImageEntry(30, 40) EXCEPT !.manual_x = 15, !.manual_y = 25, !.locked = TRUE,
                                 !.template_tag = "T", !.corner_radius = 8,
                                 !.bitmap = Bitmap(TRUE, 640, 480, "#00FF00"),
                                 !.orig_w = 640, !.orig_h = 480],
      [ImageEntry(50, 20) EXCEPT !.bitmap = Bitmap(FALSE, 400, 400, "#FF0000")] }

ProjectWidthTexts == {"100"}

ScaleTexts == {"3"}

\* files that are not the output of export_project: text that is not JSON,
\* a document without "border", without "images", with a tile without "x",
\* with a second tile whose image_data does not decode
WholeFile ==
    project_data("160", "100", "0", "#FFFFFF", "4", "3",
                 <<ImportedTile(50, 20, 10, 10, FALSE), ImportedTile(30, 40, 70, 10, TRUE)>>)

BrokenFiles ==
    { [WholeFile EXCEPT !.json = FALSE],
      [WholeFile EXCEPT !.settings_keys = @ \ {"border"}],
      [WholeFile EXCEPT !.has_images = FALSE],
      [WholeFile EXCEPT !.images[1].keys = @ \ {"x"}],
      [WholeFile EXCEPT !.images[2].image_data.ok = FALSE] }

InitProject ==
    /\ variant = "V5"
    /\ collage_width_var = "1920"
    /\ collage_height_var = "1080"
    /\ border_var = "10"
    /\ corner_radius_var = "0"
    /\ images \in SeqsUpTo(ProjectEntries, MaxProjectTiles)
    /\ bg_color_var = "#000000"
    /\ scale_var = (IF variant = "V5" THEN "1" ELSE "2")
    /\ templates = NoTemplates
    /\ preview_open = FALSE
    /\ cached_collage = NoImage
    /\ cached_collage_settings = NoSettings
    /\ returned = NoResult
    /\ lastOp = "init"
    /\ diag = {}

NextProject ==
    \/ \E t \in ProjectWidthTexts : TypeWidth(t)
    \/ \E t \in ScaleTexts : TypeScale(t)
    \/ \E k \in 1..MaxProjectTiles : remove_selected_image(k)
    \/ RecalcLayoutCall
    \/ export_project
    \/ returned.kind = "export_project" /\ import_project(returned.file)
    \/ \E file \in BrokenFiles : import_project(file)

SpecProject == InitProject /\ [][NextProject]_vars

(***************************************************************************)
(* SpecCrop: crop_to_aspect as a function of the size of the bitmap and    *)
(* the target size of the tile, as build_collage calls it.                 *)
(***************************************************************************)
CropCall ==
    /\ Len(images) >= 1
    /\ returned' = [kind |-> "crop_to_aspect",
                    box |-> crop_to_aspect(images[1].bitmap.size[1],
                                           images[1].bitmap.size[2],
                                           images[1].target_w, images[1].target_h)]
    /\ lastOp' = "crop_to_aspect"
    /\ diag' = {}
    /\ SettingsUnchanged
    /\ UNCHANGED <<images, templates, preview_open, cached_collage,
                   cached_collage_settings>>

\* sizes of source bitmaps and target sizes of tiles
CropSources == {<<400, 400>>, <<800, 600>>, <<640, 480>>, <<300, 400>>, <<5, 30>>, <<1, 49>>}
CropTargets ==
    {<<200, 200>>, <<110, 150>>, <<400, 290>>, <<50, 20>>, <<30, 40>>, <<25, 11>>,
     <<5, 29>>, <<1, 49>>}

InitCrop ==
    /\ variant \in Variants
    /\ collage_width_var = "1920"
    /\ collage_height_var = "1080"
    /\ border_var = (IF variant = "V5" THEN "10" ELSE "20")
    /\ corner_radius_var = "0"
    /\ bg_color_var = "#000000"
    /\ scale_var = (IF variant = "V5" THEN "1" ELSE "2")
    /\ \E src \in CropSources, tgt \in CropTargets :
          images = << [ImageEntry(tgt[1], tgt[2])
                         EXCEPT !.bitmap = Bitmap(TRUE, src[1], src[2], "#FF0000"),
                                !.orig_w = src[1], !.orig_h = src[2]] >>
    /\ templates = NoTemplates
    /\ preview_open = FALSE
    /\ cached_collage = NoImage
    /\ cached_collage_settings = NoSettings
    /\ returned = NoResult
    /\ lastOp = "init"
    /\ diag = {}

NextCrop == CropCall

SpecCrop == InitCrop /\ [][NextCrop]_vars

(***************************************************************************)
(* Properties of the layout engine                                         *)
(***************************************************************************)
Pos(entry) == <<entry.x, entry.y>>

Positions(imgs) == [i \in 1..Len(imgs) |-> Pos(imgs[i])]

BothManual(entry) == entry.manual_x # None /\ entry.manual_y # None

NoManual(entry) == entry.manual_x = None /\ entry.manual_y = None

\* the tiles the specification says a pass leaves out
SkippedByRule(entry, v) == IF v = "V5" THEN entry.locked ELSE BothManual(entry)

KeptTiles(imgs, v) == SelectSeq(imgs, LAMBDA e : ~SkippedByRule(e, v))

ValidSettings == settings_valid(collage_width_var, border_var)

LayoutRan == lastOp = "recalc_layout"

ClearManual(imgs) ==
    [i \in 1..Len(imgs) |-> [imgs[i] EXCEPT !.manual_x = None, !.manual_y = None]]

ClearPartialManual(imgs) ==
    [i \in 1..Len(imgs) |->
        IF BothManual(imgs[i]) THEN imgs[i]
        ELSE [imgs[i] EXCEPT !.manual_x = None, !.manual_y = None]]

C1_Scenario ==
    /\ LayoutRan
    /\ collage_width_var = "100" /\ border_var = "10"
    /\ Len(images) = 3
    /\ \A i \in 1..3 : /\ images[i].target_w = 50 /\ images[i].target_h = 20
                       /\ ~images[i].locked /\ NoManual(images[i])

\* C1 as stated: with canvas width 100, border 10 and three unlocked,
\* non-manual 50x20 tiles, recalc_layout places them at (10,10), (60,10), (10,40).
C1_RowWrapAsStated ==
    C1_Scenario => Positions(images) = << <<10, 10>>, <<60, 10>>, <<10, 40>> >>

\* C1 amended: in that scenario every tile starts a row of its own, because the
\* cursor advances by width + border (to 70, leaving 20 free, so 30 of 50
\* overflow): the tiles are placed at (10,10), (10,40), (10,70).
C1_RowWrapAmended ==
    C1_Scenario => Positions(images) = << <<10, 10>>, <<10, 40>>, <<10, 70>> >>

C1_Witness == C1_Scenario /\ Pos(images[2]) = <<10, 40>>

\* C5: the positions a pass assigns to the tiles it does not skip are those it
\* assigns when the skipped tiles (locked in V5, both manual coordinates set in
\* Collage.py) are removed from the sequence.
C5_SkippedTilesTakeNoSpace ==
    [][lastOp' = "recalc_layout" =>
         KeptTiles(images', variant) =
            recalc_layout(KeptTiles(images, variant), variant,
                          collage_width_var, border_var)]_vars

C5_Witness ==
    /\ LayoutRan /\ ValidSettings /\ Len(images) = 3
    /\ ~SkippedByRule(images[1], variant)
    /\ SkippedByRule(images[2], variant)
    /\ ~SkippedByRule(images[3], variant)
    /\ images[3].y = images[1].y
    /\ images[3].x = images[1].x + images[1].target_w + int(border_var)

\* C6 as stated: a pass assigns an auto position to every tile that is unlocked
\* and has no manual position, and never changes the auto position of a tile
\* that is locked or has a manual position.
C6_FrameAsStated ==
    [][lastOp' = "recalc_layout" /\ ValidSettings =>
         \A i \in 1..Len(images) :
            /\ (~images[i].locked /\ NoManual(images[i])
                   => images'[i].x # None /\ images'[i].y # None)
            /\ (images[i].locked \/ BothManual(images[i])
                   => Pos(images'[i]) = Pos(images[i]))]_vars

\* C6 amended: a pass never changes the auto position of a tile it skips
\* (locked in V5, both manual coordinates set in Collage.py) and, with valid
\* canvas settings, assigns an auto position to every other tile; an unlocked
\* V5 tile with a manual position is among the tiles that get one.
C6_FrameAmended ==
    [][lastOp' = "recalc_layout" =>
         \A i \in 1..Len(images) :
            /\ (SkippedByRule(images[i], variant)
                   => Pos(images'[i]) = Pos(images[i]))
            /\ (ValidSettings /\ ~SkippedByRule(images[i], variant)
                   => images'[i].x # None /\ images'[i].y # None)]_vars

C6_Witness ==
    /\ LayoutRan /\ ValidSettings /\ variant = "V5"
    /\ \E i, j \in 1..Len(images) :
          /\ ~images[i].locked /\ BothManual(images[i])
          /\ Pos(images[i]) = <<int(border_var), int(border_var)>>
          /\ images[j].locked /\ Pos(images[j]) = <<None, None>>

\* C7 as stated: only the lock excludes a tile; an unlocked tile with a manual
\* position gets the auto position the pass computes regardless of the manual
\* positions.
C7_LockOnlyAsStated ==
    [][lastOp' = "recalc_layout" /\ ValidSettings =>
         \A i \in 1..Len(images) :
            ~images[i].locked =>
               Pos(images'[i]) =
                  Pos(recalc_layout(ClearManual(images), variant,
                                    collage_width_var, border_var)[i])]_vars

\* C7 amended: that holds of Collage-V5 only.  In Collage.py (and Collage-V2,
\* which have no lock) a tile with both manual coordinates set is skipped and
\* keeps its auto position; a tile with at most one manual coordinate gets the
\* auto position computed regardless of that coordinate.
C7_LockOnlyAmended ==
    [][lastOp' = "recalc_layout" /\ ValidSettings =>
         \A i \in 1..Len(images) :
            IF variant = "V5"
            THEN ~images[i].locked =>
                    Pos(images'[i]) =
                       Pos(recalc_layout(ClearManual(images), variant,
                                         collage_width_var, border_var)[i])
            ELSE IF BothManual(images[i])
            THEN Pos(images'[i]) = Pos(images[i])
            ELSE Pos(images'[i]) =
                    Pos(recalc_layout(ClearPartialManual(images), variant,
                                      collage_width_var, border_var)[i])]_vars

C7_Witness ==
    /\ LayoutRan /\ ValidSettings /\ variant = "V5" /\ Len(images) >= 2
    /\ ~images[1].locked /\ BothManual(images[1])
    /\ ~images[2].locked
    /\ Pos(images[1]) = <<int(border_var), int(border_var)>>
    /\ Pos(images[2]) = <<images[1].x + images[1].target_w + int(border_var),
                          images[1].y>>
    /\ get_display_pos(images[1]) = <<images[1].manual_x, images[1].manual_y>>

\* either reading of "the manual position when present, else the auto position"
PairwisePosition(entry) ==
    IF BothManual(entry) THEN {<<entry.manual_x, entry.manual_y>>}
    ELSE IF NoManual(entry) THEN {<<entry.x, entry.y>>}
    ELSE {<<entry.manual_x, entry.manual_y>>, <<entry.x, entry.y>>}

\* C8 as stated: for every combination of set/unset manual_x and manual_y the
\* position build_collage paints at and get_display_pos returns is the manual
\* pair when a manual position is present and otherwise the auto pair.
C8_EffectivePositionAsStated ==
    \A i \in 1..Len(images) :
       /\ get_display_pos(images[i]) \in PairwisePosition(images[i])
       /\ paint_pos(images[i]) \in PairwisePosition(images[i])

\* C8 amended: the rule is applied to each coordinate on its own: x is manual_x
\* when set and else the auto x, y is manual_y when set and else the auto y, so a
\* tile with one manual coordinate is shown at a mix of the two; build_collage
\* and get_display_pos agree, and in Collage.py no coordinate is None after a
\* pass with valid settings.
C8_EffectivePositionAmended ==
    \A i \in 1..Len(images) :
       LET e == images[i]
           d == get_display_pos(e)
       IN  /\ d = paint_pos(e)
           /\ (BothManual(e) => d = <<e.manual_x, e.manual_y>>)
           /\ (NoManual(e) => d = <<e.x, e.y>>)
           /\ (e.manual_x # None /\ e.manual_y = None => d = <<e.manual_x, e.y>>)
           /\ (e.manual_x = None /\ e.manual_y # None => d = <<e.x, e.manual_y>>)
           /\ (LayoutRan /\ ValidSettings /\ variant = "Collage"
                  => d[1] # None /\ d[2] # None)

C8_Witness ==
    /\ LayoutRan /\ ValidSettings /\ variant = "Collage"
    /\ \E i \in 1..Len(images) :
          /\ images[i].manual_x # None /\ images[i].manual_y = None
          /\ images[i].x # None /\ images[i].x # images[i].manual_x
          /\ get_display_pos(images[i]) = <<images[i].manual_x, images[i].y>>

\* C9: when the collage width or the border is not a valid integer,
\* recalc_layout changes no tile, not even a prefix of the sequence.
C9_InvalidSettingsNoMutation ==
    [][lastOp' = "recalc_layout" /\ ~ValidSettings => images' = images]_vars

C9_Witness ==
    /\ LayoutRan /\ ~ValidSettings
    /\ \E i \in 1..Len(images) :
          ~SkippedByRule(images[i], variant) /\ Pos(images[i]) = <<None, None>>

\* C10: when the collage width or the border is not a valid integer,
\* recalc_layout reports a configuration error or records a diagnostic.
C10_InvalidSettingsReported ==
    LayoutRan /\ ~ValidSettings => diag # {}

ResetPositions(imgs) ==
    [i \in 1..Len(imgs) |-> [imgs[i] EXCEPT !.x = None, !.y = None]]

\* C16 as stated: recalc_layout is idempotent, and the (x, y) it leaves in every
\* tile do not depend on the auto positions the tiles had before the call.
C16_DeterministicAsStated ==
    [][lastOp' = "recalc_layout" =>
          /\ recalc_layout(images', variant, collage_width_var, border_var) = images'
          /\ (ValidSettings =>
                Positions(images') =
                   Positions(recalc_layout(ResetPositions(images), variant,
                                           collage_width_var, border_var)))]_vars

\* C16 amended: recalc_layout is idempotent, and the (x, y) it gives to a tile
\* it places do not depend on the auto position any tile had before the
\* call; a tile it skips keeps the auto position it had.
C16_DeterministicAmended ==
    [][lastOp' = "recalc_layout" =>
          /\ recalc_layout(images', variant, collage_width_var, border_var) = images'
          /\ LET fresh == Positions(recalc_layout(ResetPositions(images), variant,
                                                  collage_width_var, border_var))
             IN  \A i \in 1..Len(images) :
                    IF SkippedByRule(images[i], variant) \/ ~ValidSettings
                    THEN Pos(images'[i]) = Pos(images[i])
                    ELSE Pos(images'[i]) = fresh[i]]_vars

\* a skipped tile that kept an earlier position next to tiles that were placed
C16_Witness ==
    /\ LayoutRan /\ ValidSettings /\ Len(images) = 3
    /\ SkippedByRule(images[2], variant) /\ Pos(images[2]) = <<70, 10>>
    /\ ~SkippedByRule(images[1], variant) /\ ~SkippedByRule(images[3], variant)
    /\ Pos(images[1]) = <<int(border_var), int(border_var)>>
    /\ images[3].x # None

\* C17: after a pass with border >= 0, every tile the pass placed has
\* x >= border and y >= border.
C17_PlacedInsideBorder ==
    (LayoutRan /\ ValidSettings /\ int(border_var) >= 0) =>
       \A i \in 1..Len(images) :
          ~SkippedByRule(images[i], variant) =>
             images[i].x >= int(border_var) /\ images[i].y >= int(border_var)

\* a tile that starts a second row, at the left border
C17_Witness ==
    /\ LayoutRan /\ ValidSettings /\ int(border_var) > 0
    /\ \E i \in 1..Len(images) :
          /\ ~SkippedByRule(images[i], variant)
          /\ images[i].x = int(border_var) /\ images[i].y > int(border_var)

(***************************************************************************)
(* Properties of the editing session                                       *)
(***************************************************************************)
LockedFrozen(old, new) ==
    /\ new.x = old.x /\ new.y = old.y
    /\ new.manual_x = old.manual_x /\ new.manual_y = old.manual_y

\* the tile carries what the dialog submitted
SubmittedAs(entry, d) ==
    /\ entry.target_w = d.tw /\ entry.target_h = d.th
    /\ entry.manual_x = d.manual_x /\ entry.manual_y = d.manual_y
    /\ entry.locked = d.locked /\ entry.corner_radius = d.corner_radius

LayoutHandlers == {"recalc_layout", "on_ok_add", "on_ok_edit", "remove_selected_image"}

\* C3: once a layout pass has run with valid canvas settings, every tile has a
\* non-None effective position, locked and manually positioned tiles included.
C3_EffectivePositionSet ==
    lastOp \in LayoutHandlers /\ diag = {} /\ ValidSettings =>
       \A i \in 1..Len(images) :
          get_display_pos(images[i])[1] # None /\ get_display_pos(images[i])[2] # None

\* C4: whenever update_preview of Collage-V5 reuses cached_collage, the cached
\* image is the one build_collage produces from the current tiles and settings.
C4_CacheNeverStale ==
    /\ variant = "V5" /\ preview_open
    /\ cache_reused(images, cached_collage, cached_collage_settings,
                    collage_width_var, collage_height_var, border_var, bg_color_var)
    => LET b == build_collage(images, variant, collage_width_var,
                              collage_height_var, border_var, corner_radius_var,
                              bg_color_var)
       IN  b.status = "ok" /\ b.image = cached_collage

(***************************************************************************)
(* Properties of the compositor                                            *)
(***************************************************************************)
BuildRan == lastOp = "build_collage"

CompositeValid ==
    composite_settings_valid(collage_width_var, collage_height_var, border_var,
                             corner_radius_var)

\* C11: when the collage width, height, border or corner radius is not an
\* integer, build_collage returns no image, paints nothing, reports the
\* malformed settings and changes no tile (it returns before recalc_layout).
C11_MalformedSettingsAbort ==
    [][lastOp' = "build_collage" /\ ~CompositeValid =>
          /\ returned'.status = "None"
          /\ returned'.image = NoImage
          /\ diag' # {}
          /\ images' = images]_vars

\* the width and the border alone would let recalc_layout place a tile
C11_Witness ==
    /\ BuildRan /\ ~CompositeValid /\ ValidSettings
    /\ returned.status = "None"
    /\ \E i \in 1..Len(images) :
          ~skip_entry(images[i], variant) /\ Pos(images[i]) = <<None, None>>

AllReadable(imgs) ==
    [i \in 1..Len(imgs) |-> [imgs[i] EXCEPT !.bitmap.readable = TRUE]]

\* the paste operations of the composite of the same tiles with every bitmap
\* readable, less those of the tiles of imgs that do not load
PastesOfTheOthers(imgs) ==
    LET laid == recalc_layout(AllReadable(imgs), variant, collage_width_var, border_var)
    IN  SelectSeq([i \in 1..Len(imgs) |->
                      [paste_of(laid[i], variant, int(collage_width_var),
                                int(collage_height_var), int(border_var),
                                int(corner_radius_var))
                          EXCEPT !.loaded = imgs[i].bitmap.readable]],
                  LAMBDA q : q.loaded /\ q.inter[1] < q.inter[3]
                                      /\ q.inter[2] < q.inter[4])

\* C12: a tile whose bitmap cannot be opened is the only thing left out: when
\* the composite of the same tiles with readable bitmaps returns a collage, so
\* does this one, every tile gets the same auto position, and the other tiles
\* are pasted at the same places in the same order.
C12_UnreadableTileSkippedAlone ==
    [][lastOp' = "build_collage" /\ CompositeValid
          /\ build_collage(AllReadable(images), variant, collage_width_var,
                           collage_height_var, border_var, corner_radius_var,
                           bg_color_var).status = "ok"
       => /\ returned'.status = "ok"
          /\ Positions(images') =
                Positions(recalc_layout(AllReadable(images), variant,
                                        collage_width_var, border_var))
          /\ returned'.image.pastes = PastesOfTheOthers(images)]_vars

\* an unreadable tile first, then a tile that is painted to the right of the
\* place the unreadable one still takes in the row
C12_Witness ==
    /\ BuildRan /\ returned.status = "ok" /\ Len(images) = 2
    /\ ~images[1].bitmap.readable /\ images[2].bitmap.readable
    /\ NoManual(images[2]) /\ images[2].x > images[1].x
    /\ Len(returned.image.pastes) = 1
    /\ returned.image.pastes[1].color = images[2].bitmap.color
    /\ returned.image.pastes[1].inter[1] = images[2].x

\* the pixels of the canvas, and those of the safe area
CanvasXs == 0 .. (int(collage_width_var) - 1)
CanvasYs == 0 .. (int(collage_height_var) - 1)

InSafeArea(px, py) ==
    /\ int(border_var) <= px /\ px < int(collage_width_var) - int(border_var)
    /\ int(border_var) <= py /\ py < int(collage_height_var) - int(border_var)

Background == parse_hex_color(bg_color_var)

\* the placement rectangle of a tile: its target size at its effective position
PlacementCovers(entry, px, py) ==
    /\ get_display_pos(entry)[1] <= px /\ px < get_display_pos(entry)[1] + entry.target_w
    /\ get_display_pos(entry)[2] <= py /\ py < get_display_pos(entry)[2] + entry.target_h

MeetsSafeArea(entry) ==
    \E px \in CanvasXs, py \in CanvasYs :
       InSafeArea(px, py) /\ PlacementCovers(entry, px, py)

\* the loaded tiles whose placement rectangle holds the pixel
Covering(px, py) ==
    { i \in 1..Len(images) :
         images[i].bitmap.readable /\ PlacementCovers(images[i], px, py) }

Unmasked(entry) ==
    IF variant = "V5" THEN entry.corner_radius <= 0 ELSE int(corner_radius_var) <= 0

\* C13: every pixel outside the safe area keeps the background colour, a
\* painted pixel lies inside the placement rectangle of a loaded tile of that
\* colour, exactly the loaded tiles whose rectangle meets the safe area are
\* pasted, and a tile whose rectangle misses it causes no error.
C13_PaintOnlyInsideSafeArea ==
    /\ (BuildRan /\ returned.status = "ok") =>
          /\ \A px \in CanvasXs, py \in CanvasYs :
                /\ ~InSafeArea(px, py) => pixel(returned.image, px, py) = Background
                /\ pixel(returned.image, px, py) # Background =>
                      \E i \in Covering(px, py) :
                         images[i].bitmap.color = pixel(returned.image, px, py)
          /\ Len(returned.image.pastes) =
                Cardinality({ i \in 1..Len(images) :
                                images[i].bitmap.readable /\ MeetsSafeArea(images[i]) })
    /\ (BuildRan /\ CompositeValid /\ returned.status # "ok") =>
          \E i \in 1..Len(images) :
             /\ images[i].bitmap.readable
             /\ get_display_pos(images[i])[1] = None \/ get_display_pos(images[i])[2] = None

\* a tile far outside the canvas next to a tile that is cut at the border
C13_Witness ==
    /\ BuildRan /\ returned.status = "ok" /\ int(border_var) > 0
    /\ \E i \in 1..Len(images) :
          images[i].bitmap.readable /\ images[i].manual_x = -1000
    /\ \E k \in 1..Len(returned.image.pastes) :
          LET q == returned.image.pastes[k]
          IN  q.inter[3] - q.inter[1] < q.size[1]

\* C14: a pixel covered by the placement rectangles of loaded, unmasked tiles
\* only shows, inside the safe area, the colour of the last of them in the
\* sequence; a pixel covered by no loaded tile shows the background colour.
C14_LaterTilesPaintOver ==
    (BuildRan /\ returned.status = "ok") =>
       \A px \in CanvasXs, py \in CanvasYs :
          LET cov == Covering(px, py)
          IN  /\ cov = {} => pixel(returned.image, px, py) = Background
              /\ (/\ InSafeArea(px, py) /\ cov # {}
                  /\ \A i \in cov : Unmasked(images[i]))
                 => pixel(returned.image, px, py) =
                       images[CHOOSE k \in cov : \A j \in cov : j <= k].bitmap.color

\* two unmasked tiles of different colours overlap at a safe-area pixel
C14_Witness ==
    /\ BuildRan /\ returned.status = "ok" /\ Len(images) = 2
    /\ Unmasked(images[1]) /\ Unmasked(images[2])
    /\ images[1].bitmap.color # images[2].bitmap.color
    /\ \E px \in CanvasXs, py \in CanvasYs :
          /\ InSafeArea(px, py) /\ Covering(px, py) = {1, 2}
          /\ pixel(returned.image, px, py) = images[2].bitmap.color

C15_Scenario ==
    /\ BuildRan
    /\ collage_width_var = "200" /\ collage_height_var = "200"
    /\ border_var = "0" /\ bg_color_var = "#000000"
    /\ Len(images) = 1
    /\ images[1].target_w = 200 /\ images[1].target_h = 200
    /\ ~images[1].locked /\ NoManual(images[1])
    /\ images[1].bitmap = Bitmap(TRUE, 400, 400, "#FF0000")

\* C15: with canvas 200x200, border 0, background #000000 and one unlocked
\* 200x200 tile whose source is a solid red 400x400 bitmap, build_collage lays
\* the tile out at (0,0) and returns a 200x200 image whose pixels are all red.
C15_EndToEndRed ==
    C15_Scenario =>
       /\ returned.status = "ok"
       /\ returned.image.size = <<200, 200>>
       /\ Pos(images[1]) = <<0, 0>>
       /\ \A px \in 0..199, py \in 0..199 : pixel(returned.image, px, py) = "#FF0000"

C15_Witness ==
    C15_Scenario /\ returned.status = "ok" /\ pixel(returned.image, 199, 199) = "#FF0000"

(***************************************************************************)
(* Properties of the editing operations                                    *)
(***************************************************************************)
EditingOperations ==
    {"on_ok_add", "on_ok_edit", "remove_selected_image", "type_width", "type_border",
     "scale_collage", "save_template", "toggle_lock_selected", "set_manual_position"}

\* C18: when an editing operation has returned, every tile layout does not skip
\* has the auto position recalc_layout computes from the current tile
\* sequence and canvas settings.
C18_LayoutCurrentAfterEdit ==
    lastOp \in EditingOperations =>
       \A i \in 1..Len(images) :
          ~SkippedByRule(images[i], variant) =>
             Pos(images[i]) =
                Pos(recalc_layout(images, variant, collage_width_var, border_var)[i])

\* C19: after any sequence of add, edit, template save/apply and project
\* import operations, every tile has target width > 0 and target height > 0.
C19_TargetSizesPositive ==
    \A i \in 1..Len(images) : images[i].target_w > 0 /\ images[i].target_h > 0

(***************************************************************************)
(* Properties of crop_to_aspect                                            *)
(***************************************************************************)
Abs(n) == IF n < 0 THEN -n ELSE n

\* C20: for positive source and target sizes the region crop_to_aspect
\* returns keeps one dimension of the source, and the other, reduced one
\* differs by less than one pixel from the kept dimension scaled by the
\* target ratio.
C20_CropWithinOnePixel ==
    returned.kind = "crop_to_aspect" =>
       LET orig_w == images[1].bitmap.size[1]
           orig_h == images[1].bitmap.size[2]
           target_w == images[1].target_w
           target_h == images[1].target_h
           new_width == returned.box[3] - returned.box[1]
           new_height == returned.box[4] - returned.box[2]
       IN  \/ /\ new_width = orig_w
              /\ Abs(new_height * target_w - orig_w * target_h) < target_w
           \/ /\ new_height = orig_h
              /\ Abs(new_width * target_h - orig_h * target_w) < target_h

\* the parts of a centred crop that do not depend on the size of the
\* reduced dimension: which dimension is kept, the two margins, the bounds
CropCentredInside(orig_w, orig_h, target_w, target_h, box) ==
    LET wider == target_w * orig_h > orig_w * target_h
    IN  /\ wider => box[1] = 0 /\ box[3] = orig_w
        /\ ~wider => box[2] = 0 /\ box[4] = orig_h
        /\ Abs((orig_w - box[3]) - box[1]) <= 1
        /\ Abs((orig_h - box[4]) - box[2]) <= 1
        /\ 0 <= box[1] /\ box[1] <= box[3] /\ box[3] <= orig_w
        /\ 0 <= box[2] /\ box[2] <= box[4] /\ box[4] <= orig_h

\* the largest reduced dimension whose ratio to the kept one does not
\* exceed the target ratio
CropMaximal(orig_w, orig_h, target_w, target_h, box) ==
    IF target_w * orig_h > orig_w * target_h
    THEN box[4] - box[2] = (orig_w * target_h) \div target_w
    ELSE box[3] - box[1] = (orig_h * target_w) \div target_h

\* C21: crop_to_aspect keeps the full width and removes rows when the
\* target is relatively wider than the source, and otherwise keeps the full
\* height and removes columns; the two margins differ by at most one pixel,
\* the box lies inside the source, and no larger region of the target ratio
\* fits (the crop is maximal).
C21_MaximalCentredCrop ==
    returned.kind = "crop_to_aspect" =>
       LET orig_w == images[1].bitmap.size[1]
           orig_h == images[1].bitmap.size[2]
           target_w == images[1].target_w
           target_h == images[1].target_h
       IN  /\ CropCentredInside(orig_w, orig_h, target_w, target_h, returned.box)
           /\ CropMaximal(orig_w, orig_h, target_w, target_h, returned.box)

\* the part of C21 that the code satisfies on every input of the model
C21_CentredInsideBounds ==
    returned.kind = "crop_to_aspect" =>
       CropCentredInside(images[1].bitmap.size[1], images[1].bitmap.size[2],
                         images[1].target_w, images[1].target_h, returned.box)

(***************************************************************************)
(* Bitmap handles                                                          *)
(***************************************************************************)
\* C22: when build_collage returns, no tile reached by the loop has left its
\* bitmap open: every bitmap that Image.open returned was closed when the step
\* of its tile ended, whether the step succeeded or crop or resize raised.
C22_HandlesClosed ==
    returned.kind = "build_collage" =>
       \A i \in 1..Len(images) : returned.handles[i] # "open"

(***************************************************************************)
(* Project files                                                           *)
(***************************************************************************)
\* the fields of a tile that the project file carries
ExportedFields(entry) ==
    <<entry.orig_w, entry.orig_h, entry.target_w, entry.target_h,
      entry.manual_x, entry.manual_y, entry.x, entry.y, entry.locked,
      entry.template_tag>>

CanvasSettings ==
    <<collage_width_var, collage_height_var, border_var, bg_color_var,
      corner_radius_var, scale_var>>

\* C23: importing the file export_project wrote leaves exactly the exported
\* tiles, in the exported order and with the exported original size, target
\* size, manual position, automatic position, locked flag and template tag,
\* whatever the session held before the import, and sets width, height,
\* border, background colour, corner radius and scale to the exported texts.
C23_ExportImportRoundTrip ==
    [][(returned.kind = "export_project" /\ import_project(returned.file))
       => /\ Len(images') = Len(returned.images)
          /\ \A i \in 1..Len(returned.images) :
                ExportedFields(images'[i]) = ExportedFields(returned.images[i])
          /\ CanvasSettings' = returned.settings]_vars

\* a two-tile project with a tagged, locked, hand-placed tile imported into a
\* session with a different width and scale
C23_Witness ==
    /\ lastOp = "import_project" /\ diag = {"Import Successful"}
    /\ returned.kind = "export_project"
    /\ Len(returned.images) = 2 /\ Len(images) = 2
    /\ returned.images[1].template_tag = "T" /\ images[1].template_tag = "T"
    /\ images[1].manual_x = 15 /\ images[1].locked
    /\ images[2].x = 10 /\ images[2].manual_x = None
    /\ returned.settings[1] = "100" /\ collage_width_var = "100"
    /\ returned.settings[6] = "3" /\ scale_var = "3"

\* C30: an import_project that ends in the error dialog leaves the canvas
\* settings and the tile sequence as they were before it started.
C30_FailedImportLeavesSession ==
    [][(lastOp' = "import_project" /\ diag' = {"Error"})
       => CanvasSettings' = CanvasSettings /\ images' = images]_vars

(***************************************************************************)
(* Properties of the rows recalc_layout builds                             *)
(***************************************************************************)
\* the indices of the tiles a pass lays out
Kept == { i \in 1..Len(images) : ~SkippedByRule(images[i], variant) }

\* i and j are laid out one right after the other
Consecutive(i, j) == i \in Kept /\ j \in Kept /\ i < j /\ \A k \in Kept : ~(i < k /\ k < j)

\* the cursor x and the free space the pass finds after placing tile i
CursorAfter(i) == images[i].x + images[i].target_w + int(border_var)

FreeAfter(i) == int(collage_width_var) - CursorAfter(i) - int(border_var)

\* C24: when the tile laid out after tile i is wider than the positive free
\* space left behind tile i, it starts a new row (x = border, below tile i)
\* if more than half of its width would overflow, and is placed at the
\* cursor in the row of tile i if exactly half or less would.
C24_WrapWhenMoreThanHalfOverflows ==
    (LayoutRan /\ ValidSettings) =>
       \A i, j \in 1..Len(images) :
          (/\ Consecutive(i, j)
           /\ FreeAfter(i) > 0
           /\ images[j].target_w > FreeAfter(i))
          => IF 2 * (images[j].target_w - FreeAfter(i)) > images[j].target_w
             THEN images[j].x = int(border_var) /\ images[j].y > images[i].y
             ELSE images[j].x = CursorAfter(i) /\ images[j].y = images[i].y

\* both cases in one pass: a second tile of which exactly half overflows
\* stays in the row
C24_Witness ==
    /\ LayoutRan /\ ValidSettings
    /\ \E i, j \in 1..Len(images) :
          /\ Consecutive(i, j) /\ FreeAfter(i) > 0
          /\ 2 * (images[j].target_w - FreeAfter(i)) = images[j].target_w
          /\ images[j].y = images[i].y

(***************************************************************************)
(* Rounded masks                                                           *)
(***************************************************************************)
\* the tiles build_collage pastes, in the order of the sequence
Painted == SelectSeq(images, LAMBDA e : e.bitmap.readable /\ MeetsSafeArea(e))

\* the mask of paste k has the target size of the tile and is cropped to the
\* sub-rectangle of the tile that is pasted
MaskFitsTile(k) ==
    LET q == returned.image.pastes[k]
    IN  /\ q.mask_size = <<Painted[k].target_w, Painted[k].target_h>>
        /\ q.mask_src = q.src

\* C25 as stated: a tile is pasted through a rounded mask exactly when its
\* own corner radius is > 0, the mask has the target size of the tile and
\* is cropped like the tile.
C25_MaskByOwnRadiusAsStated ==
    (BuildRan /\ returned.status = "ok") =>
       \A k \in 1..Len(returned.image.pastes) :
          /\ returned.image.pastes[k].radius = Max(Painted[k].corner_radius, 0)
          /\ returned.image.pastes[k].radius > 0 => MaskFitsTile(k)

\* C25 amended: in Collage-V5 the corner radius of the tile decides, and the
\* global setting does not; in Collage.py, whose tiles carry no corner
\* radius, the global corner-radius setting decides for every tile.
C25_MaskByOwnRadiusAmended ==
    (BuildRan /\ returned.status = "ok") =>
       \A k \in 1..Len(returned.image.pastes) :
          /\ returned.image.pastes[k].radius =
                (IF variant = "V5" THEN Max(Painted[k].corner_radius, 0)
                 ELSE Max(int(corner_radius_var), 0))
          /\ returned.image.pastes[k].radius > 0 => MaskFitsTile(k)

\* Collage-V5 with global corner radius 0: a tile with its own radius pasted
\* through its mask next to a tile without
C25_Witness ==
    /\ BuildRan /\ returned.status = "ok" /\ variant = "V5"
    /\ int(corner_radius_var) = 0
    /\ Len(returned.image.pastes) = 2
    /\ \E k \in 1..2 : returned.image.pastes[k].radius = 4
    /\ \E k \in 1..2 : returned.image.pastes[k].radius = 0

\* the bottom of the tallest tile laid out in the row of tile i
RowBottom(i) ==
    LET row == { k \in Kept : images[k].y = images[i].y }
        bottoms == { images[k].y + images[k].target_h : k \in row }
    IN  CHOOSE b \in bottoms : \A c \in bottoms : c <= b

FirstKept == CHOOSE i \in Kept : \A k \in Kept : i <= k

\* the row wraps a tile of width target_w triggers when free_space is left:
\* one when nothing is left, one more when more than half of it overflows
\* what is left then
Wraps(target_w, free_space) ==
    LET safe_width == int(collage_width_var) - 2 * int(border_var)
        left == IF free_space <= 0 THEN safe_width ELSE free_space
    IN  (IF free_space <= 0 THEN 1 ELSE 0)
        + (IF target_w > left /\ 2 * (target_w - left) > target_w THEN 1 ELSE 0)

\* C26 as stated: the first tile laid out is at (border, border); a tile
\* laid out after tile i either continues the row of tile i at the cursor or
\* starts a row exactly border below the bottom of the tallest tile of that
\* row, so that no row is empty.
C26_NoEmptyRowAsStated ==
    (LayoutRan /\ ValidSettings /\ Kept # {}) =>
       /\ Pos(images[FirstKept]) = <<int(border_var), int(border_var)>>
       /\ \A i, j \in Kept :
             Consecutive(i, j) =>
                \/ Pos(images[j]) = <<CursorAfter(i), images[i].y>>
                \/ Pos(images[j]) = <<int(border_var), RowBottom(i) + int(border_var)>>

\* C26 amended: placing one tile triggers at most two row wraps, and the
\* second one leaves an empty row: the first tile laid out is at x = border
\* and y = border plus one border for each wrap it triggers, and a tile that
\* starts a new row is at x = border, below the bottom of the tallest tile
\* of the previous row by one border for each wrap it triggers.
C26_NoEmptyRowAmended ==
    (LayoutRan /\ ValidSettings /\ Kept # {}) =>
       /\ LET first == images[FirstKept]
              w == Wraps(first.target_w, int(collage_width_var) - 2 * int(border_var))
          IN  Pos(first) = <<int(border_var), int(border_var) + w * int(border_var)>>
       /\ \A i, j \in Kept :
             Consecutive(i, j) =>
                LET w == Wraps(images[j].target_w, FreeAfter(i))
                IN  IF w = 0
                    THEN Pos(images[j]) = <<CursorAfter(i), images[i].y>>
                    ELSE Pos(images[j]) =
                            <<int(border_var), RowBottom(i) + w * int(border_var)>>

\* a tile that starts a row two borders below the previous row, and a first
\* tile below (border, border)
C26_Witness ==
    /\ LayoutRan /\ ValidSettings /\ Kept # {} /\ int(border_var) > 0
    /\ images[FirstKept].y > int(border_var)
    /\ \E i, j \in Kept :
          /\ Consecutive(i, j)
          /\ Pos(images[j]) = <<int(border_var), RowBottom(i) + 2 * int(border_var)>>

\* C27: with border >= 0 and positive target sizes, of two tiles laid out
\* by one pass the later one is, in the same row, at least border to the
\* right of the right edge of the earlier one, and otherwise at least border
\* below its bottom edge; so their placement rectangles do not overlap.
C27_AutoPlacedTilesDisjoint ==
    (LayoutRan /\ ValidSettings /\ int(border_var) >= 0
       /\ \A k \in Kept : images[k].target_w > 0 /\ images[k].target_h > 0) =>
       \A i, j \in Kept :
          i < j =>
             /\ IF images[j].y = images[i].y
                THEN images[j].x >= images[i].x + images[i].target_w + int(border_var)
                ELSE images[j].y >= images[i].y + images[i].target_h + int(border_var)
             /\ \/ images[j].x >= images[i].x + images[i].target_w
                \/ images[j].y >= images[i].y + images[i].target_h

\* three tiles in two rows, the second row under a row of unequal heights
C27_Witness ==
    /\ LayoutRan /\ ValidSettings /\ int(border_var) > 0
    /\ \E i, j, k \in Kept :
          /\ i < j /\ j < k
          /\ images[i].y = images[j].y /\ images[i].target_h # images[j].target_h
          /\ images[k].y > images[j].y

\* C28: a tile laid out by the pass that does not start its row (x > border)
\* has at most half of its target width beyond the right edge of the safe
\* area.
C28_AtMostHalfBeyondSafeArea ==
    (LayoutRan /\ ValidSettings) =>
       \A i \in Kept :
          images[i].x > int(border_var) =>
             2 * (images[i].x + images[i].target_w
                    - (int(collage_width_var) - int(border_var)))
                <= images[i].target_w

\* a tile that continues a row with exactly half of its width beyond the
\* safe area, followed by a tile that starts the next row
C28_Witness ==
    /\ LayoutRan /\ ValidSettings
    /\ \E i \in Kept :
          /\ images[i].x > int(border_var)
          /\ 2 * (images[i].x + images[i].target_w
                    - (int(collage_width_var) - int(border_var)))
                = images[i].target_w
    /\ \E i \in Kept : images[i].x = int(border_var) /\ images[i].y > int(border_var)

(***************************************************************************)
(* The size of the region crop_to_aspect returns                           *)
(***************************************************************************)
\* C29: for a source and a target whose four dimensions are all > 0 the
\* box crop_to_aspect hands to img.crop is at least one pixel wide and one
\* pixel high.
C29_CropNonEmpty ==
    (/\ returned.kind = "crop_to_aspect"
     /\ images[1].bitmap.size[1] > 0 /\ images[1].bitmap.size[2] > 0
     /\ images[1].target_w > 0 /\ images[1].target_h > 0)
    => /\ returned.box[3] - returned.box[1] >= 1
       /\ returned.box[4] - returned.box[2] >= 1

====
